---- MODULE Spec2Model ----
(***************************************************************************)
(* RetryTransport (internal/provider retry transport): one RoundTrip call  *)
(* of the retrying http.RoundTripper, together with the retry loop of      *)
(* backoff.Retry (github.com/cenkalti/backoff/v5) that it runs with        *)
(* WithBackOff(ExponentialBackOff), WithMaxTries(10) and WithNotify.  The  *)
(* call sets the backoff's InitialInterval and MaxInterval and leaves the  *)
(* library's defaults for the rest: Multiplier 1.5, RandomizationFactor    *)
(* 0.5, and Retry's MaxElapsedTime of 15 minutes.                          *)
(*                                                                         *)
(* Durations are counted in units of 1/256 second, so that every interval  *)
(* 2s * 1.5^k (k = 0..9) the exponential backoff produces, and the half of *)
(* it the randomization adds or subtracts, is an exact integer.            *)
(***************************************************************************)
EXTENDS Integers, Sequences, FiniteSets, TLC

\* time.Second, in model units
Second == 256

\* backoff.WithMaxTries(10)
MaxTries == 10

\* bExponential.InitialInterval = 2 * time.Second
InitialInterval == 2 * Second

\* bExponential.MaxInterval = 1 * time.Minute
MaxInterval == 60 * Second

\* backoff.NewExponentialBackOff(): DefaultMultiplier = 1.5
MultiplierNum == 3
MultiplierDen == 2

\* backoff.NewExponentialBackOff(): DefaultRandomizationFactor = 0.5
RandomizationNum == 1
RandomizationDen == 2

\* backoff.Retry without WithMaxElapsedTime: DefaultMaxElapsedTime = 15 * time.Minute
MaxElapsedTime == 900 * Second

\* rand.Float64() is sampled at the points r / RandSteps, r = 0..RandSteps
RandSteps == 1

\* how long one underlying exchange can take: no time, or a quarter of an hour
ExchangeDurations == {0, 900 * Second}

\* the status codes the underlying transport answers with
StatusCodes == {200, 404, 429, 503}

\* the integers shouldRetry is evaluated on
StatusRange == -1 .. 999

\* the request's body: none (nil or http.NoBody), one with a GetBody factory,
\* a stream without a factory, and the in-memory reader cloneRequest stores
\* into req.Body after it has read such a stream
BodyKinds == {"none", "factory", "stream", "buffered"}

\* the bytes of the body a request is made with
BodyBytes == <<"h", "i">>

\* the answer of the underlying transport that is an error instead of a response
TransportFailure == 0

\* scripted transports: the k-th exchange is answered with the k-th element,
\* and every exchange after the last element with the last element
Scenarios == {<<503, 503, 503, 200>>, <<503>>}

\* how many calls run concurrently on one RetryTransport
NumCalls == 2

Calls == 1 .. NumCalls

\* the http.RoundTripper given to NewRetryTransport
BaseTransport == "transport"

\* the content categories of a content update policy
Categories == {"sensor_operations", "system_critical", "vulnerability_management",
               "rapid_response"}

\* the ring_assignment values a configuration is written with
RingValues == {"ga", "ea", "pause", "beta"}

\* the delay_hours value a configuration is written with, when it has one
DelayValues == {24}

VARIABLES
    pc,              \* where the call is: "attempt", "inflight", "wait", "done"
    reqBody,         \* the caller's req.Body / req.GetBody
    reqBodyLeft,     \* the bytes req.Body yields when it is read from now on
    clonedBody,      \* the body of the clone last handed to the transport
    scenario,        \* <<>>: any transport; otherwise the answers of a scripted one
    cancelled,       \* ctx.Done() is closed
    cancelledAt,     \* where the call was when the context was cancelled
    numTries,        \* Retry: numTries
    exchanges,       \* number of rt.Transport.RoundTrip calls issued
    failures,        \* number of attempts classified as retryable failures
    currentInterval, \* ExponentialBackOff.currentInterval
    elapsed,         \* time.Since(startedAt)
    res,             \* operation's result of the current attempt
    err,             \* operation's error of the current attempt
    next,            \* Retry: next, the last value of NextBackOff()
    intervals,       \* currentInterval at each NextBackOff() call
    waits,           \* the durations Timer.Start was called with
    waitsDone,       \* how many of these timers fired
    ret,             \* what RoundTrip returned: [resp, err]
    openBodies,      \* how many response bodies the call got are not closed
    logged,          \* the tflog events of the current try, in order
    rt,              \* the RetryTransport: its fields
    calls,           \* concurrent calls on rt: the locals of each
    backOffs,        \* concurrent calls on rt: the ExponentialBackOff objects
    config,          \* ValidateConfig: the configuration of the resource
    diagnostics,     \* the diagnostics the validation has answered with
    validated,       \* which parts of the validation have run
    oldSettings,     \* managePinnedContentVersions: oldSettings
    newSettings,     \* managePinnedContentVersions: newSettings
    unvisited,       \* the categories its range loop has not come to yet
    apiActions,      \* the policy actions it has issued, for each category
    manageErr,       \* what it has returned
    remoteExclusion, \* the sensor visibility exclusion exists at the API
    exclusionInState, \* the exclusion resource is in the Terraform state
    exclusionResp,   \* the last Read or Delete of it: the API's answer, the response
    defaultPolicy,   \* the default content update policy at the API
    policyState,     \* the default policy resource in the Terraform state
    policyResp       \* the last Create, Update or Delete of it

\* the call followed step by step
callVars == <<pc, reqBody, reqBodyLeft, clonedBody, scenario, cancelled,
              cancelledAt, numTries, exchanges, failures, currentInterval,
              elapsed, res, err, next, intervals, waits, waitsDone, ret,
              openBodies, logged>>

\* the concurrent calls
concurrentVars == <<calls, backOffs>>

\* the validation of a configuration
validationVars == <<config, diagnostics, validated>>

\* managePinnedContentVersions
pinnedVars == <<oldSettings, newSettings, unvisited, apiActions, manageErr>>

\* the sensor visibility exclusion resource
exclusionVars == <<remoteExclusion, exclusionInState, exclusionResp>>

\* the default content update policy resource
policyVars == <<defaultPolicy, policyState, policyResp>>

\* the resources
resourceVars == <<pinnedVars, exclusionVars, policyVars>>

\* what is not of the call followed step by step
outsideCall == <<concurrentVars, validationVars, resourceVars>>

vars == <<callVars, rt, outsideCall>>

----------------------------------------------------------------------------
(* Values *)

NoResponse == [nil |-> TRUE, status |-> 0, closed |-> FALSE]

Response(code) == [nil |-> FALSE, status |-> code, closed |-> FALSE]

NilError == [kind |-> "nil", code |-> 0, permanent |-> FALSE]

\* the error of rt.Transport.RoundTrip
TransportError == [kind |-> "transport", code |-> 0, permanent |-> FALSE]

\* fmt.Errorf("retryable HTTP status code: %d", resp.StatusCode)
StatusError(code) == [kind |-> "retryable HTTP status code", code |-> code, permanent |-> FALSE]

\* fmt.Errorf("failed to clone request: %w", err)
CloneError == [kind |-> "failed to clone request", code |-> 0, permanent |-> FALSE]

\* context.Cause(ctx)
ContextError == [kind |-> "context", code |-> 0, permanent |-> FALSE]

\* a plausible slip: the error is not wrapped
NotPermanent(e) == e

\* backoff.Permanent(err)
Permanent(e) == [e EXCEPT !.permanent = TRUE]

\* (*PermanentError).Unwrap()
Unwrap(e) == [e EXCEPT !.permanent = FALSE]

NotReturned == [resp |-> NoResponse, err |-> NilError]

\* a body: the bytes its reader yields, and whether the reader is its own
\* or the one req.Body refers to
NoBody == [bytes |-> <<>>, own |-> TRUE]

\* io.NopCloser(bytes.NewReader(bodyBytes)), or what GetBody returns
NewReader(bodyBytes) == [bytes |-> bodyBytes, own |-> TRUE]

----------------------------------------------------------------------------
(* RetryTransport.shouldRetry *)

\* a plausible slip: one case of the switch is missing
shouldRetryWithout502(statusCode) ==
    CASE statusCode = 429 -> TRUE
      [] statusCode = 500 -> TRUE
      [] statusCode = 503 -> TRUE
      [] statusCode = 504 -> TRUE
      [] OTHER -> FALSE

\* a plausible slip: every client and server error is retried
shouldRetryEveryError(statusCode) == statusCode >= 400

shouldRetry(statusCode) ==
    CASE statusCode = 429 -> TRUE
      [] statusCode = 500 -> TRUE
      [] statusCode = 502 -> TRUE
      [] statusCode = 503 -> TRUE
      [] statusCode = 504 -> TRUE
      [] OTHER -> FALSE

----------------------------------------------------------------------------
(* ExponentialBackOff *)

\* getRandomValueFromInterval(RandomizationFactor, r / RandSteps, currentInterval)
getRandomValueFromInterval(r, interval) ==
    LET delta == (RandomizationNum * interval) \div RandomizationDen
        minInterval == interval - delta
        maxInterval == interval + delta
    IN  minInterval + (r * (maxInterval - minInterval)) \div RandSteps

\* a plausible slip: the interval is not capped
incrementCurrentIntervalUncapped(interval) ==
    (interval * MultiplierNum) \div MultiplierDen

\* a plausible slip: the interval doubles
incrementCurrentIntervalDoubling(interval) ==
    IF interval * 2 >= MaxInterval THEN MaxInterval ELSE interval * 2

\* (*ExponentialBackOff).incrementCurrentInterval
incrementCurrentInterval(interval) ==
    IF interval * MultiplierNum >= MaxInterval * MultiplierDen
    THEN MaxInterval
    ELSE (interval * MultiplierNum) \div MultiplierDen

----------------------------------------------------------------------------
(* RoundTrip's own return, lines 74-83: the result of backoff.Retry as is *)

RoundTripReturn(resp, e) ==
    IF e # NilError THEN [resp |-> resp, err |-> e] ELSE [resp |-> resp, err |-> NilError]

----------------------------------------------------------------------------
(* The state when RoundTrip is entered: Retry starts with numTries = 1 and *)
(* BackOff.Reset(), which sets currentInterval to InitialInterval.         *)

\* NewRetryTransport(transport)
NewRetryTransport(transport) == [Transport |-> transport]

\* the locals of a call that has not been made
NotCalled == [pc |-> "idle", numTries |-> 0, exchanges |-> 0, intervals |-> <<>>,
              err |-> NilError]

\* no concurrent calls are followed
NoCalls ==
    /\ calls = [c \in Calls |-> NotCalled]
    /\ backOffs = [c \in Calls |-> 0]

\* a value of the configuration as the provider receives it: known, or
\* unknown until a later phase; `value` is what the configuration's
\* expression evaluates to, which the provider sees only of a known value
StringValue(v) == [known |-> TRUE, null |-> FALSE, value |-> v]

StringUnknown(v) == [known |-> FALSE, null |-> FALSE, value |-> v]

Int64Value(v) == [known |-> TRUE, null |-> FALSE, value |-> v]

Int64Null == [known |-> TRUE, null |-> TRUE, value |-> 0]

\* one category's object: ring_assignment is required, delay_hours optional
RingAssignmentObjects ==
    [known : BOOLEAN,
     RingAssignment : {StringValue(v) : v \in RingValues} \cup {StringUnknown("ga")},
     DelayHours : {Int64Value(v) : v \in DelayValues} \cup {Int64Null}]

\* an object that is unknown as a whole has no known attribute
Configs ==
    [Categories -> {o \in RingAssignmentObjects :
                        ~o.known => (o.RingAssignment = StringUnknown("ga") /\ o.DelayHours = Int64Null)}]

\* no configuration is under validation
NoValidation ==
    /\ config = [c \in Categories |->
                    [known |-> TRUE, RingAssignment |-> StringValue("ga"), DelayHours |-> Int64Null]]
    /\ diagnostics = {}
    /\ validated = {}

StringNull == [known |-> TRUE, null |-> TRUE, value |-> ""]

\* a nil *ringAssignmentModel
NilSetting == [nil |-> TRUE]

\* a *ringAssignmentModel, of which pinned_content_version matters here
Setting(pinnedContentVersion) == [nil |-> FALSE, PinnedContentVersion |-> pinnedContentVersion]

\* a nil *contentUpdatePolicySettings
NilSettings == [nil |-> TRUE]

\* the contentUpdatePolicySettings with the setting f[c] for category c
Settings(f) ==
    [nil |-> FALSE,
     sensorOperations |-> f["sensor_operations"],
     systemCritical |-> f["system_critical"],
     vulnerabilityManagement |-> f["vulnerability_management"],
     rapidResponse |-> f["rapid_response"]]

\* managePinnedContentVersions has not returned / has returned nil
StillManaging == [returned |-> FALSE, failed |-> FALSE]

ManagedNil == [returned |-> TRUE, failed |-> FALSE]

\* managePinnedContentVersions is not called
NoPinning ==
    /\ oldSettings = NilSettings
    /\ newSettings = NilSettings
    /\ unvisited = {}
    /\ apiActions = [c \in Categories |-> <<>>]
    /\ manageErr = ManagedNil

\* an error of the API client: nil, or its HTTP status and its text
NilApiError == [nil |-> TRUE, status |-> 0, text |-> <<>>]

\* no operation on a resource yet
NoResp == [op |-> ""]

\* the last operation on a resource: the handler, the error and the number
\* of resources the API answered with, the API calls made, and the
\* diagnostics of the response
Resp(op, e, resources, apiCalls, diags) ==
    [op |-> op, err |-> e, resources |-> resources, apiCalls |-> apiCalls,
     diagnostics |-> diags]

\* the sensor visibility exclusion resource is not managed
NoExclusion ==
    /\ remoteExclusion = FALSE
    /\ exclusionInState = FALSE
    /\ exclusionResp = NoResp

\* the Terraform state without the resource, and with it when only its id
\* has been set
NotInState == [present |-> FALSE, ring |-> "", enabled |-> FALSE]

IdInState == [present |-> TRUE, ring |-> "", enabled |-> FALSE]

\* the default content update policy resource is not managed
NoDefaultPolicy ==
    /\ defaultPolicy = [exists |-> TRUE, ring |-> "ga", enabled |-> TRUE]
    /\ policyState = NotInState
    /\ policyResp = NoResp

NoResources ==
    /\ NoPinning
    /\ NoExclusion
    /\ NoDefaultPolicy

RoundTripEntered ==
    /\ pc = "attempt"
    /\ \/ scenario = <<>> /\ reqBody \in BodyKinds \ {"buffered"}
       \/ scenario \in Scenarios /\ reqBody = "none"
    /\ reqBodyLeft = IF reqBody = "none" THEN <<>> ELSE BodyBytes
    /\ clonedBody = NoBody
    /\ cancelled = FALSE
    /\ cancelledAt = ""
    /\ numTries = 1
    /\ exchanges = 0
    /\ failures = 0
    /\ currentInterval = InitialInterval
    /\ elapsed = 0
    /\ res = NoResponse
    /\ err = NilError
    /\ next = 0
    /\ intervals = <<>>
    /\ waits = <<>>
    /\ waitsDone = 0
    /\ ret = NotReturned
    /\ openBodies = 0
    /\ logged = <<>>

Init ==
    /\ RoundTripEntered
    /\ rt = NewRetryTransport(BaseTransport)
    /\ NoCalls
    /\ NoValidation
    /\ NoResources

----------------------------------------------------------------------------
(* The tflog events.  An event is its message and its fields that are not   *)
(* of the request (url, method): the status code, the error, the wait.     *)

NoStatus == 0 - 1

NoWait == 0 - 1

\* tflog.Warn of operation, lines 46-50
tflogWarnStatus(code) ==
    <<[msg |-> "HTTP request returned retryable status code",
       status_code |-> code, error |-> NilError, wait_duration |-> NoWait]>>

\* a plausible slip: the event leaves the wait out
bNotifyWithoutDuration(e, duration) ==
    <<[msg |-> "Retrying HTTP request after error",
       status_code |-> NoStatus, error |-> e, wait_duration |-> NoWait]>>

\* bNotify, lines 63-70
bNotify(e, duration) ==
    <<[msg |-> "Retrying HTTP request after error",
       status_code |-> NoStatus, error |-> e, wait_duration |-> duration]>>

\* tflog.Error of RoundTrip, lines 75-79
tflogError(e) ==
    <<[msg |-> "HTTP request failed after all retries",
       status_code |-> NoStatus, error |-> e, wait_duration |-> NoWait]>>

----------------------------------------------------------------------------
(* backoff.Retry, line 72: the loop's body after operation has returned    *)
(* (r, e) at time t.  Nothing in it blocks before the select, so that it   *)
(* is one step with the return of operation.                               *)

\* what was logged in the try, l, and what RoundTrip logs when backoff.Retry
\* has returned e, lines 74-81
Return(resp, e, l) ==
    /\ ret' = RoundTripReturn(resp, e)
    /\ logged' = IF e = NilError THEN l ELSE l \o tflogError(e)
    /\ pc' = "done"

\* a plausible slip: ctx is not the request's context but a background one
contextCauseOfBackground == NilError

\* context.Cause(ctx) of ctx := req.Context(), line 29: nil until the
\* context is cancelled
contextCause == IF cancelled THEN ContextError ELSE NilError

\* a plausible slip: numTries > args.MaxTries
TriesLeftOneMore == numTries <= MaxTries

\* args.MaxTries > 0 && numTries >= args.MaxTries does not hold
TriesLeft == numTries < MaxTries

\* (*ExponentialBackOff).NextBackOff with rand.Float64() = r / RandSteps
NextBackOff(r) ==
    /\ next' = getRandomValueFromInterval(r, currentInterval)
    /\ intervals' = Append(intervals, currentInterval)
    /\ currentInterval' = incrementCurrentInterval(currentInterval)

Retry(r, e, t, l) ==
    /\ res' = r
    /\ err' = e
    /\ elapsed' = t
    /\ IF e = NilError
       THEN \* return res, nil
            /\ Return(r, NilError, l)
            /\ UNCHANGED <<currentInterval, next, intervals, waits>>
       ELSE IF ~TriesLeft
       THEN \* return res, err
            /\ Return(r, e, l)
            /\ UNCHANGED <<currentInterval, next, intervals, waits>>
       ELSE IF e.permanent
       THEN \* return res, permanent.Unwrap()
            /\ Return(r, Unwrap(e), l)
            /\ UNCHANGED <<currentInterval, next, intervals, waits>>
       ELSE IF contextCause # NilError
       THEN \* return res, context.Cause(ctx)
            /\ Return(r, contextCause, l)
            /\ UNCHANGED <<currentInterval, next, intervals, waits>>
       ELSE \E rnd \in 0 .. RandSteps :
            /\ NextBackOff(rnd)
            /\ IF t + next' > MaxElapsedTime
               THEN \* return res, err
                    /\ Return(r, e, l)
                    /\ UNCHANGED waits
               ELSE \* args.Notify(err, next); args.Timer.Start(next); select
                    /\ logged' = l \o bNotify(e, next')
                    /\ waits' = Append(waits, next')
                    /\ pc' = "wait"
                    /\ UNCHANGED ret

----------------------------------------------------------------------------
(* operation(), lines 31-57 *)

\* a plausible slip: req.Clone only, which copies the Body field as it is
cloneRequestShallow(body, left) ==
    IF body = "none"
    THEN [body |-> body, left |-> left, cloned |-> NoBody]
    ELSE [body |-> body, left |-> left, cloned |-> [bytes |-> left, own |-> FALSE]]

\* cloneRequest, lines 105-128, when it returns no error: of the caller's
\* body (its kind, the bytes it still yields) what it becomes, and the body
\* of the clone.  With GetBody the clone gets what GetBody returns, a new
\* reader of the bytes; without, req.Body is read to its end and both the
\* request and the clone get a new reader of what was read
cloneRequest(body, left) ==
    IF body = "none"
    THEN [body |-> body, left |-> left, cloned |-> NoBody]
    ELSE IF body = "factory"
    THEN [body |-> body, left |-> left, cloned |-> NewReader(BodyBytes)]
    ELSE [body |-> "buffered", left |-> left, cloned |-> NewReader(left)]

\* cloneRequest succeeds: a request without body, a GetBody factory that
\* answers, or a body io.ReadAll reads to its end (which cloneRequest then
\* replaces in the caller's request by a reader of the bytes); the clone
\* goes to rt.Transport.RoundTrip
CloneRequestOk ==
    /\ pc = "attempt"
    /\ reqBody' = cloneRequest(reqBody, reqBodyLeft).body
    /\ reqBodyLeft' = cloneRequest(reqBody, reqBodyLeft).left
    /\ clonedBody' = cloneRequest(reqBody, reqBodyLeft).cloned
    /\ exchanges' = exchanges + 1
    /\ pc' = "inflight"
    /\ UNCHANGED <<rt, outsideCall, openBodies, cancelledAt, logged>>
    /\ UNCHANGED <<scenario, cancelled, numTries, failures, currentInterval,
                   elapsed, res, err, next, intervals, waits, waitsDone, ret>>

\* cloneRequest fails: GetBody returns an error, or reading the caller's
\* stream does (the reader cloneRequest stored itself cannot fail);
\* operation returns nil, backoff.Permanent(...)
CloneRequestFails ==
    /\ pc = "attempt"
    /\ reqBody \in {"factory", "stream"}
    /\ Retry(NoResponse, Permanent(CloneError), elapsed, <<>>)
    /\ UNCHANGED <<rt, outsideCall, openBodies, reqBodyLeft, clonedBody, cancelledAt>>
    /\ UNCHANGED <<reqBody, scenario, cancelled, numTries, exchanges, failures,
                   waitsDone>>

\* what the underlying transport may answer to the exchange in flight
TransportAnswers ==
    IF scenario = <<>>
    THEN StatusCodes \cup {TransportFailure}
    ELSE {scenario[IF exchanges < Len(scenario) THEN exchanges ELSE Len(scenario)]}

\* a plausible slip: every response body is closed, not only the retried ones
operationClosesEveryBody(answer) ==
    IF answer = TransportFailure
    THEN [res |-> NoResponse, err |-> TransportError]
    ELSE IF shouldRetry(answer)
    THEN [res |-> [Response(answer) EXCEPT !.closed = TRUE], err |-> StatusError(answer)]
    ELSE [res |-> [Response(answer) EXCEPT !.closed = TRUE], err |-> NilError]

\* a plausible slip: the transport's error is returned as a permanent one
operationTransportErrorPermanent(answer) ==
    IF answer = TransportFailure
    THEN [res |-> NoResponse, err |-> Permanent(TransportError)]
    ELSE IF shouldRetry(answer)
    THEN [res |-> [Response(answer) EXCEPT !.closed = TRUE], err |-> StatusError(answer)]
    ELSE [res |-> Response(answer), err |-> NilError]

\* a plausible slip: the body of a retried response is not closed
operationLeavesBodyOpen(answer) ==
    IF answer = TransportFailure
    THEN [res |-> NoResponse, err |-> TransportError]
    ELSE IF shouldRetry(answer)
    THEN [res |-> Response(answer), err |-> StatusError(answer)]
    ELSE [res |-> Response(answer), err |-> NilError]

\* what operation returns for the transport's answer, lines 37-56: the
\* transport's error as it is; for a retryable status the response, its
\* body closed, with the "retryable HTTP status code" error; otherwise the
\* response and a nil error
operation(answer) ==
    IF answer = TransportFailure
    THEN [res |-> NoResponse, err |-> TransportError]
    ELSE IF shouldRetry(answer)
    THEN [res |-> [Response(answer) EXCEPT !.closed = TRUE], err |-> StatusError(answer)]
    ELSE [res |-> Response(answer), err |-> NilError]

\* what operation logs for the transport's answer, lines 42-50
operationLogs(answer) ==
    IF answer # TransportFailure /\ shouldRetry(answer)
    THEN tflogWarnStatus(answer)
    ELSE <<>>

\* rt.Transport.RoundTrip returns after some time, having read the body of
\* the clone to its end and closed it, and operation returns
TransportRoundTrip ==
    /\ pc = "inflight"
    /\ \E answer \in TransportAnswers, d \in ExchangeDurations :
        /\ failures' = IF operation(answer).err = NilError THEN failures ELSE failures + 1
        /\ openBodies' = IF operation(answer).res.nil \/ operation(answer).res.closed
                         THEN openBodies
                         ELSE openBodies + 1
        /\ Retry(operation(answer).res, operation(answer).err, elapsed + d,
                 operationLogs(answer))
    /\ reqBodyLeft' = IF clonedBody.own THEN reqBodyLeft ELSE <<>>
    /\ UNCHANGED <<rt, outsideCall, clonedBody, cancelledAt>>
    /\ UNCHANGED <<reqBody, scenario, cancelled, numTries, exchanges, waitsDone>>

----------------------------------------------------------------------------
(* backoff.Retry, line 72: the select on the timer and on ctx.Done().  A   *)
(* call at "wait" is parked in the select: what happens first decides.     *)

\* a plausible slip: the wait does not watch ctx.Done()
TimerFiresWhateverContext ==
    /\ pc = "wait"
    /\ elapsed' = elapsed + next
    /\ waitsDone' = waitsDone + 1
    /\ numTries' = numTries + 1
    /\ res' = NoResponse
    /\ err' = NilError
    /\ logged' = <<>>
    /\ pc' = "attempt"
    /\ UNCHANGED <<rt, outsideCall, openBodies, reqBodyLeft, clonedBody, cancelledAt>>
    /\ UNCHANGED <<reqBody, scenario, cancelled, exchanges, failures,
                   currentInterval, next, intervals, waits, ret>>

\* a plausible slip: the loop does not count the try
TimerFiresSameTry ==
    /\ pc = "wait"
    /\ ~cancelled
    /\ elapsed' = elapsed + next
    /\ waitsDone' = waitsDone + 1
    /\ res' = NoResponse
    /\ err' = NilError
    /\ logged' = <<>>
    /\ pc' = "attempt"
    /\ UNCHANGED <<rt, outsideCall, openBodies, reqBodyLeft, clonedBody, cancelledAt>>
    /\ UNCHANGED <<reqBody, scenario, cancelled, numTries, exchanges, failures,
                   currentInterval, next, intervals, waits, ret>>

\* case <-args.Timer.C(): the timer fires, the context not being done, and
\* the loop starts the next try
TimerFires ==
    /\ pc = "wait"
    /\ contextCause = NilError
    /\ elapsed' = elapsed + next
    /\ waitsDone' = waitsDone + 1
    /\ numTries' = numTries + 1
    /\ res' = NoResponse
    /\ err' = NilError
    /\ logged' = <<>>
    /\ pc' = "attempt"
    /\ UNCHANGED <<rt, outsideCall, openBodies, reqBodyLeft, clonedBody, cancelledAt>>
    /\ UNCHANGED <<reqBody, scenario, cancelled, exchanges, failures,
                   currentInterval, next, intervals, waits, ret>>

\* case <-ctx.Done(): return res, context.Cause(ctx)
ContextDone ==
    /\ pc = "wait"
    /\ contextCause # NilError
    /\ Return(res, contextCause, logged)
    /\ UNCHANGED <<rt, outsideCall, openBodies, reqBodyLeft, clonedBody, cancelledAt>>
    /\ UNCHANGED <<reqBody, scenario, cancelled, numTries, exchanges, failures,
                   currentInterval, elapsed, res, err, next, intervals, waits,
                   waitsDone>>

\* the request's context is cancelled, at any moment of the call
Cancel ==
    /\ pc # "done"
    /\ ~cancelled
    /\ cancelled' = TRUE
    /\ cancelledAt' = pc
    /\ UNCHANGED <<rt, outsideCall, openBodies, reqBodyLeft, clonedBody, logged>>
    /\ UNCHANGED <<pc, reqBody, scenario, numTries, exchanges, failures,
                   currentInterval, elapsed, res, err, next, intervals, waits,
                   waitsDone, ret>>

Next ==
    \/ CloneRequestOk
    \/ CloneRequestFails
    \/ TransportRoundTrip
    \/ TimerFires
    \/ ContextDone
    \/ Cancel

Spec == Init /\ [][Next]_vars

\* The call runs in its caller's goroutine, which the Go scheduler keeps
\* running: cloneRequest returns, the underlying exchange returns (every
\* exchange is assumed to), and the select returns once the timer has fired
\* or ctx.Done() is closed.  Nothing obliges the context to be cancelled.
\* The request has a GetBody factory, the kind of body with which a call
\* can take every course: the factory may fail at any try, and while it
\* does not the call goes as with the other kinds of body.
FairInit ==
    /\ Init
    /\ scenario = <<>>
    /\ reqBody = "factory"

FairSpec ==
    /\ FairInit
    /\ [][Next]_vars
    /\ WF_vars(CloneRequestOk \/ CloneRequestFails)
    /\ WF_vars(TransportRoundTrip)
    /\ WF_vars(TimerFires \/ ContextDone)

----------------------------------------------------------------------------
(* Several RoundTrip calls on one RetryTransport, each in its own          *)
(* goroutine.  What a call keeps between its steps are locals: numTries of *)
(* backoff.Retry, and the ExponentialBackOff that line 59 allocates.  The  *)
(* exchanges take no time here and no context is cancelled, so that no     *)
(* call is cut short by MaxElapsedTime or by its context.                  *)

\* a plausible slip: one ExponentialBackOff, kept by the RetryTransport
bExponentialOfTransport(c) == 1

\* bExponential := backoff.NewExponentialBackOff(), line 59: the object
\* call c works with is the one it has allocated
bExponential(c) == c

\* RoundTrip is entered, lines 27-72: the backoff is allocated and set up,
\* Retry resets it and starts with numTries = 1
Enter(c) ==
    /\ calls[c].pc = "idle"
    /\ calls' = [calls EXCEPT ![c] = [NotCalled EXCEPT !.pc = "attempt", !.numTries = 1]]
    /\ backOffs' = [backOffs EXCEPT ![bExponential(c)] = InitialInterval]
    /\ UNCHANGED <<callVars, rt, validationVars, resourceVars>>

\* operation, lines 32-37: the clone goes to rt.Transport.RoundTrip
IssueExchange(c) ==
    /\ calls[c].pc = "attempt"
    /\ rt.Transport = BaseTransport
    /\ calls' = [calls EXCEPT ![c].pc = "inflight",
                              ![c].exchanges = calls[c].exchanges + 1]
    /\ UNCHANGED <<callVars, rt, backOffs, validationVars, resourceVars>>

\* the exchange returns, operation returns and Retry decides, lines 37-72
ExchangeReturns(c) ==
    /\ calls[c].pc = "inflight"
    /\ \E answer \in StatusCodes \cup {TransportFailure} :
        LET e == operation(answer).err
            b == bExponential(c)
        IN  IF e = NilError \/ calls[c].numTries >= MaxTries
            THEN /\ calls' = [calls EXCEPT ![c].pc = "done", ![c].err = e]
                 /\ UNCHANGED backOffs
            ELSE /\ calls' = [calls EXCEPT ![c].pc = "wait",
                                           ![c].intervals = Append(calls[c].intervals, backOffs[b])]
                 /\ backOffs' = [backOffs EXCEPT ![b] = incrementCurrentInterval(backOffs[b])]
    /\ UNCHANGED <<callVars, rt, validationVars, resourceVars>>

\* the timer of the call's wait fires and its loop starts the next try
TimerFiresFor(c) ==
    /\ calls[c].pc = "wait"
    /\ calls' = [calls EXCEPT ![c].pc = "attempt",
                              ![c].numTries = calls[c].numTries + 1]
    /\ UNCHANGED <<callVars, rt, backOffs, validationVars, resourceVars>>

\* the call followed step by step is not made
RoundTripNotFollowed ==
    /\ RoundTripEntered
    /\ scenario = <<>>
    /\ reqBody = "none"

ConcurrentInit ==
    /\ RoundTripNotFollowed
    /\ rt = NewRetryTransport(BaseTransport)
    /\ NoCalls
    /\ NoValidation
    /\ NoResources

ConcurrentNext ==
    \E c \in Calls :
        \/ Enter(c)
        \/ IssueExchange(c)
        \/ ExchangeReturns(c)
        \/ TimerFiresFor(c)

ConcurrentSpec == ConcurrentInit /\ [][ConcurrentNext]_vars

----------------------------------------------------------------------------
(* Validation of the configuration of the default content update policy:   *)
(* the validators of the schema's attributes and the resource's            *)
(* ValidateConfig, which the framework runs on the same configuration,     *)
(* each with diagnostics of its own that it then collects.                 *)

\* validRingAssignments
validRingAssignments == {"ga", "ea", "pause"}

\* a plausible slip: system_critical is validated against the common list
validSystemCriticalRingAssignmentsWithPause == {"ga", "ea", "pause"}

\* validSystemCriticalRingAssignments
validSystemCriticalRingAssignments == {"ga", "ea"}

\* validDelayHours
validDelayHours == {0, 1, 2, 4, 8, 12, 24, 48, 72}

\* ringAssignmentValidators(): the list OneOf is made of, by key
ringAssignmentValidators(key) ==
    CASE key = "ring_assignment" -> validRingAssignments
      [] key = "system_critical" -> validSystemCriticalRingAssignments

\* types.String.ValueString(): the empty string of a null or unknown value
ValueString(a) == IF a.known /\ ~a.null THEN a.value ELSE ""

\* IsNull(): an unknown value is not null
IsNull(a) == a.known /\ a.null

\* stringvalidator.OneOf / int64validator.OneOf: a null or unknown value
\* is not validated
OneOf(allowed, a) == (a.known /\ ~a.null) => a.value \in allowed

\* the diagnostic of an attribute's OneOf validator
InvalidAttributeValueMatch(c, attribute, a) ==
    [attribute |-> <<c, attribute>>,
     summary |-> "Invalid Attribute Value Match",
     detail |-> "value must be one of",
     value |-> ToString(a.value)]

\* the diagnostic of Object.As(ctx, &model, basetypes.ObjectAsOptions{}) for
\* an object that is unknown
ValueConversionError(c) ==
    [attribute |-> <<c>>,
     summary |-> "Value Conversion Error",
     detail |-> "Received unknown value, however the target type cannot handle unknown values.",
     value |-> ""]

\* ValidateConfig's diagnostic for category c
InvalidDelayHours(c, ringAssignment) ==
    [attribute |-> <<c, "delay_hours">>,
     summary |-> "Invalid delay_hours configuration",
     detail |-> "delay_hours can only be set when ring_assignment is 'ga'.",
     value |-> ValueString(ringAssignment)]

\* config.extract(ctx): each object (none is null, the attributes being
\* required) is converted into its model
extract(cfg) == {ValueConversionError(c) : c \in {x \in Categories : ~cfg[x].known}}

\* the schema: the validators of ring_assignment and delay_hours of each
\* category that is known
SchemaDiagnostics(cfg) ==
    LET list(c) == ringAssignmentValidators(IF c = "system_critical"
                                            THEN "system_critical"
                                            ELSE "ring_assignment")
    IN  {InvalidAttributeValueMatch(c, "ring_assignment", cfg[c].RingAssignment) :
            c \in {x \in Categories :
                      cfg[x].known /\ ~OneOf(list(x), cfg[x].RingAssignment)}}
        \cup
        {InvalidAttributeValueMatch(c, "delay_hours", cfg[c].DelayHours) :
            c \in {x \in Categories :
                      cfg[x].known /\ ~OneOf(validDelayHours, cfg[x].DelayHours)}}

\* the framework validates the attributes of the configuration
ValidateAttributes ==
    /\ "Schema" \notin validated
    /\ diagnostics' = diagnostics \cup SchemaDiagnostics(config)
    /\ validated' = validated \cup {"Schema"}
    /\ UNCHANGED <<callVars, rt, concurrentVars, config, resourceVars>>

\* ValidateConfig, lines 467-522: nothing more after an error of Get or of
\* extract; otherwise one error for each category whose ring_assignment
\* reads other than "ga" and whose delay_hours is not null
ValidateConfigDiagnostics(cfg) ==
    IF extract(cfg) # {}
    THEN extract(cfg)
    ELSE {InvalidDelayHours(c, cfg[c].RingAssignment) :
            c \in {x \in Categories :
                      /\ ValueString(cfg[x].RingAssignment) # "ga"
                      /\ ~IsNull(cfg[x].DelayHours)}}

ValidateConfig ==
    /\ "ValidateConfig" \notin validated
    /\ diagnostics' = diagnostics \cup ValidateConfigDiagnostics(config)
    /\ validated' = validated \cup {"ValidateConfig"}
    /\ UNCHANGED <<callVars, rt, concurrentVars, config, resourceVars>>

ValidationInit ==
    /\ RoundTripNotFollowed
    /\ rt = NewRetryTransport(BaseTransport)
    /\ NoCalls
    /\ NoResources
    /\ config \in Configs
    /\ diagnostics = {}
    /\ validated = {}

ValidationNext ==
    \/ ValidateAttributes
    \/ ValidateConfig

ValidationSpec == ValidationInit /\ [][ValidationNext]_vars

----------------------------------------------------------------------------
(* managePinnedContentVersions, src/unnamed/part_003 lines 336-403.  Each  *)
(* iteration of its range loop over categoryMap is a step: the policy      *)
(* action an iteration issues is a call to the API, and the order in which *)
(* a Go map is ranged over is not fixed.                                   *)

\* the pinned versions the old settings are drawn from
OldVersions == {StringNull, StringValue("v1"), StringValue("v2")}

\* the settings the new settings are drawn from
NewSettingValues == {NilSetting, Setting(StringValue("")), Setting(StringValue("v1"))}

\* getSettingOrNil, lines 405-423
getSettingOrNil(settings, category) ==
    IF settings.nil
    THEN NilSetting
    ELSE CASE category = "sensor_operations" -> settings.sensorOperations
           [] category = "system_critical" -> settings.systemCritical
           [] category = "vulnerability_management" -> settings.vulnerabilityManagement
           [] category = "rapid_response" -> settings.rapidResponse
           [] OTHER -> NilSetting

\* categoryMap, lines 344-369: the apiName of a category
apiName(category) ==
    IF category = "rapid_response" THEN "rapid_response_al_bl_listing" ELSE category

\* lines 372-380: the version of a setting, "" when there is none
versionOf(setting) ==
    IF ~setting.nil /\ ~IsNull(setting.PinnedContentVersion)
    THEN ValueString(setting.PinnedContentVersion)
    ELSE ""

\* setPinnedContentVersion, lines 280-306: the action it asks the API for
setPinnedContentVersion(categoryName, version) ==
    [ActionName |-> "set-pinned-content-version", Name |-> categoryName, Value |-> version]

\* removePinnedContentVersion, lines 309-334
removePinnedContentVersion(categoryName) ==
    [ActionName |-> "remove-pinned-content-version", Name |-> categoryName,
     Value |-> categoryName]

\* a plausible slip: the old pinning is removed whenever there is one
pinnedActionsRemoveFirst(oldVersion, newVersion, categoryName) ==
    IF oldVersion = newVersion
    THEN <<>>
    ELSE (IF oldVersion # ""
          THEN <<removePinnedContentVersion(categoryName)>>
          ELSE <<>>)
         \o (IF newVersion # ""
             THEN <<setPinnedContentVersion(categoryName, newVersion)>>
             ELSE <<>>)

\* lines 382-399: the actions one iteration asks for, in order, when none
\* of them fails
pinnedActions(oldVersion, newVersion, categoryName) ==
    IF oldVersion = newVersion
    THEN <<>>
    ELSE (IF newVersion = "" /\ oldVersion # ""
          THEN <<removePinnedContentVersion(categoryName)>>
          ELSE <<>>)
         \o (IF newVersion # ""
             THEN <<setPinnedContentVersion(categoryName, newVersion)>>
             ELSE <<>>)

\* lines 390, 397: the error the function returns when an action has failed
pinnedError(action, category) ==
    [returned |-> TRUE, failed |-> TRUE,
     text |-> IF action.ActionName = "remove-pinned-content-version"
              THEN "failed to remove pinned content version for"
              ELSE "failed to set pinned content version for",
     category |-> category]

\* one iteration of the loop, lines 371-400, for a category not yet come
\* to: its actions are issued one after the other until one fails, if any
\* does, which ends the function; after the last category it returns nil
ManageCategory(category) ==
    /\ ~manageErr.returned
    /\ category \in unvisited
    /\ LET oldVersion == versionOf(getSettingOrNil(oldSettings, category))
           newVersion == versionOf(getSettingOrNil(newSettings, category))
           actions == pinnedActions(oldVersion, newVersion, apiName(category))
       IN  \E failing \in 0 .. Len(actions) :
            /\ apiActions' = [apiActions EXCEPT ![category] =
                                 IF failing = 0 THEN actions ELSE SubSeq(actions, 1, failing)]
            /\ manageErr' = IF failing # 0 THEN pinnedError(actions[failing], category)
                            ELSE IF unvisited = {category} THEN ManagedNil
                            ELSE manageErr
    /\ unvisited' = unvisited \ {category}
    /\ UNCHANGED <<oldSettings, newSettings>>
    /\ UNCHANGED <<callVars, rt, concurrentVars, validationVars, exclusionVars, policyVars>>

PinnedInit ==
    /\ RoundTripNotFollowed
    /\ rt = NewRetryTransport(BaseTransport)
    /\ NoCalls
    /\ NoValidation
    /\ NoExclusion
    /\ NoDefaultPolicy
    /\ oldSettings \in {NilSettings} \cup {Settings(f) : f \in [Categories -> {Setting(v) : v \in OldVersions}]}
    /\ newSettings \in {Settings(f) : f \in [Categories -> NewSettingValues]}
    /\ unvisited = Categories
    /\ apiActions = [c \in Categories |-> <<>>]
    /\ manageErr = StillManaging

PinnedNext == \E category \in Categories : ManageCategory(category)

PinnedSpec == PinnedInit /\ [][PinnedNext]_vars

----------------------------------------------------------------------------
(* The sensor visibility exclusion resource,                               *)
(* src/internal/sensor_visibility_exclusion/sensor_visibility_exclusion_resource.go: *)
(* Read, lines 243-283, and Delete, lines 357-388.  A text is the sequence *)
(* of its characters.                                                      *)

Digit == <<"0", "1", "2", "3", "4", "5", "6", "7", "8", "9">>

\* fmt's %d of a status code
Digits(n) == <<Digit[(n \div 100) + 1], Digit[((n \div 10) % 10) + 1], Digit[(n % 10) + 1]>>

\* strings.Contains
Contains(text, substr) ==
    \E i \in 1 .. (Len(text) - Len(substr) + 1) :
        SubSeq(text, i, i + Len(substr) - 1) = substr

\* the statuses the API fails with
ErrorStatuses == {400, 401, 403, 404, 429, 500, 503}

\* what follows the status in the text of an API error: the payload, which
\* holds among others the trace id of the request
Payloads == {<<>>, <<" ", "b", "7", "1", "c">>, <<" ", "a", "4", "0", "4", "f">>}

\* the error the API client returns for a response with this status and
\* payload; its Error() is "[<status>]" and the payload
ApiError(status, payload) ==
    [nil |-> FALSE, status |-> status,
     text |-> <<"[">> \o Digits(status) \o <<"]">> \o payload]

\* what the API can fail with whether the exclusion exists or not
ApiFailures == {ApiError(st, p) : st \in ErrorStatuses \ {404}, p \in Payloads}

\* the API's 404 answers
NotFoundErrors == {ApiError(404, p) : p \in Payloads}

\* strings.Contains(err.Error(), "404"), lines 268 and 380
IsNotFound(e) == Contains(e.text, <<"4", "0", "4">>)

\* Create, lines 174-241: an error of the API or an answer without a
\* resource is an error of Create, which leaves the state without the
\* resource
ExclusionCreate ==
    /\ ~exclusionInState
    /\ \E answer \in {[err |-> NilApiError, resources |-> n] : n \in {0, 1}}
                      \cup {[err |-> e, resources |-> 0] : e \in ApiFailures} :
        LET errors == IF ~answer.err.nil \/ answer.resources = 0
                      THEN {"Error creating sensor visibility exclusion"}
                      ELSE {}
        IN  /\ remoteExclusion' = IF answer.err.nil /\ answer.resources > 0
                                  THEN TRUE
                                  ELSE remoteExclusion
            /\ exclusionInState' = (errors = {})
            /\ exclusionResp' = Resp("Create", answer.err, answer.resources,
                                     <<"CreateSVExclusionsV1">>, errors)
    /\ UNCHANGED <<callVars, rt, concurrentVars, validationVars, pinnedVars, policyVars>>

\* Read, lines 243-283
ExclusionRead ==
    /\ exclusionInState
    /\ \E answer \in
            (IF remoteExclusion
             THEN {[err |-> NilApiError, resources |-> 1]}
             ELSE {[err |-> NilApiError, resources |-> 0]}
                  \cup {[err |-> e, resources |-> 0] : e \in NotFoundErrors})
            \cup {[err |-> e, resources |-> 0] : e \in ApiFailures} :
        LET removed == IF ~answer.err.nil
                       THEN IsNotFound(answer.err)
                       ELSE answer.resources = 0
            errors == IF ~answer.err.nil /\ ~IsNotFound(answer.err)
                      THEN {"Error reading CrowdStrike sensor visibility exclusion"}
                      ELSE {}
        IN  /\ exclusionInState' = ~removed
            /\ exclusionResp' = Resp("Read", answer.err, answer.resources,
                                     <<"GetSensorVisibilityExclusionsV1">>, errors)
    /\ UNCHANGED remoteExclusion
    /\ UNCHANGED <<callVars, rt, concurrentVars, validationVars, pinnedVars, policyVars>>

\* Delete, lines 357-388; when it answers without an error the framework
\* removes the resource from the state
ExclusionDelete ==
    /\ exclusionInState
    /\ \E e \in (IF remoteExclusion THEN {NilApiError} ELSE NotFoundErrors)
                 \cup ApiFailures :
        LET errors == IF ~e.nil /\ ~IsNotFound(e)
                      THEN {"Error deleting CrowdStrike sensor visibility exclusion"}
                      ELSE {}
        IN  /\ remoteExclusion' = IF e.nil THEN FALSE ELSE remoteExclusion
            /\ exclusionInState' = (errors # {})
            /\ exclusionResp' = Resp("Delete", e, 0,
                                     <<"DeleteSensorVisibilityExclusionsV1">>, errors)
    /\ UNCHANGED <<callVars, rt, concurrentVars, validationVars, pinnedVars, policyVars>>

\* the exclusion is deleted at the API by someone else
DeletedOutside ==
    /\ remoteExclusion
    /\ remoteExclusion' = FALSE
    /\ UNCHANGED <<exclusionInState, exclusionResp>>
    /\ UNCHANGED <<callVars, rt, concurrentVars, validationVars, pinnedVars, policyVars>>

ExclusionInit ==
    /\ RoundTripNotFollowed
    /\ rt = NewRetryTransport(BaseTransport)
    /\ NoCalls
    /\ NoValidation
    /\ NoPinning
    /\ NoDefaultPolicy
    /\ remoteExclusion = FALSE
    /\ exclusionInState = FALSE
    /\ exclusionResp = NoResp

ExclusionNext ==
    \/ ExclusionCreate
    \/ ExclusionRead
    \/ ExclusionDelete
    \/ DeletedOutside

ExclusionSpec == ExclusionInit /\ [][ExclusionNext]_vars

----------------------------------------------------------------------------
(* The default content update policy resource,                             *)
(* src/internal/content_update_policy/default_content_update_policy_resource.go: *)
(* Create, lines 345-382, Update, lines 420-446, Delete, lines 448-455.    *)
(* Of the policy's settings the ring assignment of one category is kept.   *)

\* what a plan asks for
Plans == [ring : {"ga", "ea", "pause"}, enabled : BOOLEAN]

\* the calls updateDefaultPolicy makes for a plan, lines 524-639: the
\* update of the settings, and when the enabled state the API answers with
\* is not the plan's, the enable or disable action and a new fetch
updateCalls(policy, plan) ==
    <<"UpdateContentUpdatePolicies">>
    \o (IF plan.enabled # policy.enabled
        THEN <<"PerformContentUpdatePoliciesAction", "GetContentUpdatePolicies">>
        ELSE <<>>)

\* updateDefaultPolicy, lines 524-639, when its failing-th call fails (none
\* when failing = 0): the policy at the API afterwards, the calls made, and
\* the error
updateDefaultPolicy(policy, plan, failing) ==
    [policy |-> [exists |-> policy.exists,
                 ring |-> IF failing = 1 THEN policy.ring ELSE plan.ring,
                 enabled |-> IF failing \in {1, 2} THEN policy.enabled ELSE plan.enabled],
     apiCalls |-> IF failing = 0
                  THEN updateCalls(policy, plan)
                  ELSE SubSeq(updateCalls(policy, plan), 1, failing),
     diagnostics |-> CASE failing = 0 -> {}
                       [] failing = 1 -> {"Error updating CrowdStrike default content update policy"}
                       [] failing = 2 -> {"Error changing default content update policy enabled state"}
                       [] OTHER -> {"Error reading content update policy"}]

\* Create, lines 345-382: getDefaultPolicy finds the policy, its id goes
\* into the state, and updateDefaultPolicy configures it
DefaultPolicyCreate ==
    /\ ~policyState.present
    /\ \E plan \in Plans, answered \in BOOLEAN :
        IF ~answered \/ ~defaultPolicy.exists
        THEN /\ policyResp' = Resp("Create", NilApiError, 0,
                                   <<"QueryCombinedContentUpdatePolicies">>,
                                   IF answered
                                   THEN {"Unable to find default content update policy"}
                                   ELSE {"Failed to get default content update policy"})
             /\ UNCHANGED <<defaultPolicy, policyState>>
        ELSE \E failing \in 0 .. Len(updateCalls(defaultPolicy, plan)) :
                LET updated == updateDefaultPolicy(defaultPolicy, plan, failing)
                IN  /\ defaultPolicy' = updated.policy
                    /\ policyState' = IF failing = 0
                                      THEN [present |-> TRUE, ring |-> plan.ring,
                                            enabled |-> plan.enabled]
                                      ELSE IdInState
                    /\ policyResp' = Resp("Create", NilApiError, 0,
                                          <<"QueryCombinedContentUpdatePolicies">>
                                              \o updated.apiCalls,
                                          updated.diagnostics)
    /\ UNCHANGED <<callVars, rt, concurrentVars, validationVars, pinnedVars, exclusionVars>>

\* Update, lines 420-446
DefaultPolicyUpdate ==
    /\ policyState.present
    /\ \E plan \in Plans :
        \E failing \in 0 .. Len(updateCalls(defaultPolicy, plan)) :
            LET updated == updateDefaultPolicy(defaultPolicy, plan, failing)
            IN  /\ defaultPolicy' = updated.policy
                /\ policyState' = IF failing = 0
                                  THEN [present |-> TRUE, ring |-> plan.ring,
                                        enabled |-> plan.enabled]
                                  ELSE policyState
                /\ policyResp' = Resp("Update", NilApiError, 0, updated.apiCalls,
                                      updated.diagnostics)
    /\ UNCHANGED <<callVars, rt, concurrentVars, validationVars, pinnedVars, exclusionVars>>

\* a plausible slip: Delete deletes the policy at the API, as the Delete
\* of a policy that is not a default one does
DefaultPolicyDeleteAtApi ==
    /\ policyState.present
    /\ defaultPolicy' = [defaultPolicy EXCEPT !.exists = FALSE]
    /\ policyState' = NotInState
    /\ policyResp' = Resp("Delete", NilApiError, 0, <<"DeleteContentUpdatePolicies">>, {})
    /\ UNCHANGED <<callVars, rt, concurrentVars, validationVars, pinnedVars, exclusionVars>>

\* Delete, lines 448-455: its body is empty; the framework removes the
\* resource from the state as Delete has answered without an error
DefaultPolicyDelete ==
    /\ policyState.present
    /\ policyState' = NotInState
    /\ policyResp' = Resp("Delete", NilApiError, 0, <<>>, {})
    /\ UNCHANGED defaultPolicy
    /\ UNCHANGED <<callVars, rt, concurrentVars, validationVars, pinnedVars, exclusionVars>>

PolicyInit ==
    /\ RoundTripNotFollowed
    /\ rt = NewRetryTransport(BaseTransport)
    /\ NoCalls
    /\ NoValidation
    /\ NoPinning
    /\ NoExclusion
    /\ defaultPolicy \in [exists : {TRUE}, ring : {"ga", "ea", "pause"}, enabled : BOOLEAN]
    /\ policyState = NotInState
    /\ policyResp = NoResp

PolicyNext ==
    \/ DefaultPolicyCreate
    \/ DefaultPolicyUpdate
    \/ DefaultPolicyDelete

PolicySpec == PolicyInit /\ [][PolicyNext]_vars

----------------------------------------------------------------------------
(* Properties of one RoundTrip call *)

\* the retryable status-code set of the specification
RetryableStatusCodes == {429, 500, 502, 503, 504}

\* the last attempt ended in a transient failure of the exchange
TransientFailure == err.kind \in {"transport", "retryable HTTP status code"}

\* C1: a finished call has returned either a response with a nil error or
\* an error without a response, never both, and never a response whose body
\* the transport closed because its status was retryable.
C1_ResponseXorError ==
    pc = "done" =>
        /\ \/ ~ret.resp.nil /\ ret.err = NilError
           \/ ret.resp.nil /\ ret.err # NilError
        /\ ~ret.resp.closed

C4_NonRetryableOnce ==
    ( /\ numTries = 1
      /\ ~res.nil
      /\ ~(res.status \in RetryableStatusCodes) ) =>
        /\ pc = "done"
        /\ exchanges = 1
        /\ waits = <<>>
        /\ err = NilError
        /\ ~res.closed
        /\ ret = [resp |-> res, err |-> NilError]

C4_Witness ==
    /\ pc = "done"
    /\ numTries = 1
    /\ exchanges = 1
    /\ waits = <<>>
    /\ ret = [resp |-> Response(404), err |-> NilError]

\* C5 as stated: a request whose body is a stream without GetBody factory
\* is never sent: the call ends with the clone error after zero exchanges.
C5_Original ==
    ( /\ pc = "done"
      /\ reqBody \in {"stream", "buffered"} ) =>
        /\ exchanges = 0
        /\ ret.err = CloneError

\* C5 amended: when cloning fails on the first attempt (GetBody or the read
\* of the body returns an error), the call makes no exchange and no wait
\* and returns the clone error; a stream without factory that can be read
\* is buffered and sent.
C5_CloneFailureIsPermanent ==
    /\ ( /\ err.kind = "failed to clone request"
         /\ numTries = 1 ) =>
           /\ pc = "done"
           /\ exchanges = 0
           /\ waits = <<>>
           /\ elapsed = 0
           /\ reqBody \in {"factory", "stream"}
           /\ ret = [resp |-> NoResponse, err |-> CloneError]
    /\ reqBody = "buffered" => exchanges >= 1

C5_Witness ==
    /\ pc = "done"
    /\ reqBody = "stream"
    /\ exchanges = 0
    /\ ret = [resp |-> NoResponse, err |-> CloneError]

\* C6: once the context is cancelled while the call waits for a backoff
\* timer, the call returns the context's error without that timer having
\* fired, and a call that has returned issues no exchange.
C6_CancelledWaitReturns ==
    [][ /\ (pc = "wait" /\ cancelled) =>
            /\ pc' = "done"
            /\ ret'.err = ContextError
            /\ waitsDone' = waitsDone
            /\ exchanges' = exchanges
        /\ pc = "done" => (pc' = "done" /\ exchanges' = exchanges) ]_vars

C6_Witness ==
    /\ pc = "done"
    /\ ret.err = ContextError
    /\ exchanges = 2
    /\ Len(waits) = 2
    /\ waitsDone = 1

\* shouldRetry is true for exactly the retryable status codes
ShouldRetryExactly ==
    \A statusCode \in StatusRange :
        shouldRetry(statusCode) <=> statusCode \in RetryableStatusCodes

\* C7: shouldRetry holds of 429, 500, 502, 503 and 504 and of no other
\* integer, and a response with any other status comes out of an attempt
\* with a nil error and an open body and is what the call returns.
C7_ShouldRetry ==
    /\ ShouldRetryExactly
    /\ ( /\ ~res.nil
         /\ ~(res.status \in RetryableStatusCodes) ) =>
           /\ err = NilError
           /\ ~res.closed
           /\ pc = "done"
           /\ ret = [resp |-> Response(res.status), err |-> NilError]
    /\ ( /\ ~res.nil
         /\ res.status \in RetryableStatusCodes ) =>
           /\ err = StatusError(res.status)
           /\ res.closed

C7_Witness ==
    /\ pc = "done"
    /\ numTries = 3
    /\ ret = [resp |-> Response(404), err |-> NilError]

C9_Original ==
    \A i \in 1 .. Len(waits) :
        /\ waits[i] <= MaxInterval
        /\ i > 1 => waits[i - 1] <= waits[i]

\* C9 amended: the interval the backoff keeps never decreases from one
\* retry to the next and never exceeds MaxInterval; each wait is that
\* interval randomized by at most half of it either way, so that a wait can
\* be shorter than the one before and longer than MaxInterval, but never
\* longer than one and a half times MaxInterval.
C9_IntervalsGrowToCap ==
    /\ currentInterval <= MaxInterval
    /\ \A i \in 1 .. Len(intervals) :
        /\ intervals[i] <= MaxInterval
        /\ intervals[i] <= currentInterval
        /\ i > 1 => intervals[i - 1] <= intervals[i]
    /\ Len(waits) <= Len(intervals)
    /\ \A i \in 1 .. Len(waits) :
        /\ 2 * waits[i] >= intervals[i]
        /\ 2 * waits[i] <= 3 * intervals[i]
        /\ 2 * waits[i] <= 3 * MaxInterval

C9_Witness ==
    /\ Len(waits) = MaxTries - 1
    /\ waits[MaxTries - 1] > MaxInterval
    /\ waits[2] < waits[1]

\* C10 as stated: against the transport that answers 503, 503, 503, 200
\* the call makes 4 exchanges, waits 2s, 4s and 8s, and returns the 200.
C10_Original ==
    ( /\ pc = "done"
      /\ scenario = <<503, 503, 503, 200>>
      /\ res = Response(200) ) =>
        /\ exchanges = 4
        /\ waits = <<2 * Second, 4 * Second, 8 * Second>>
        /\ ret = [resp |-> Response(200), err |-> NilError]

\* C10 amended: against the transport that answers 503, 503, 503, 200 a
\* call that gets its 200 has made 4 exchanges and returns the 200; the
\* intervals of its three waits are 2s, 3s and 4.5s (times 1.5 each
\* retry), and each wait is its interval randomized by at most half of it:
\* 1s..3s, 1.5s..4.5s and 2.25s..6.75s.
C10_ThreeRetriesThenOk ==
    ( /\ pc = "done"
      /\ scenario = <<503, 503, 503, 200>>
      /\ res = Response(200) ) =>
        /\ exchanges = 4
        /\ failures = 3
        /\ waitsDone = 3
        /\ intervals = <<2 * Second, 3 * Second, (9 * Second) \div 2>>
        /\ Len(waits) = 3
        /\ \A i \in 1 .. 3 :
            /\ 2 * waits[i] >= intervals[i]
            /\ 2 * waits[i] <= 3 * intervals[i]
        /\ ret = [resp |-> Response(200), err |-> NilError]

C10_Witness ==
    /\ pc = "done"
    /\ scenario = <<503, 503, 503, 200>>
    /\ exchanges = 4
    /\ waits = <<3 * Second, (3 * Second) \div 2, (27 * Second) \div 4>>
    /\ ret = [resp |-> Response(200), err |-> NilError]

\* C11: every call returns: under FairSpec (exchanges return, timers fire)
\* the call is eventually over; it never makes more than MaxTries exchanges;
\* and a call that is over after a MaxTries-th exchange that failed has
\* returned that failure's error to its caller.
C11_Terminates ==
    /\ <>(pc = "done")
    /\ [](exchanges <= MaxTries)
    /\ []( ( /\ pc = "done"
             /\ exchanges = MaxTries
             /\ TransientFailure ) =>
                /\ ret.err # NilError
                /\ ret.err = err )

C11_Witness ==
    /\ pc = "done"
    /\ exchanges = MaxTries
    /\ numTries = MaxTries
    /\ err = TransportError
    /\ ret = [resp |-> NoResponse, err |-> TransportError]

\* the interval of the k-th NextBackOff() of one ExponentialBackOff
RECURSIVE IntervalAt(_)
IntervalAt(k) ==
    IF k = 1 THEN InitialInterval ELSE incrementCurrentInterval(IntervalAt(k - 1))

DelayHoursErrorFor(c) ==
    \E d \in diagnostics :
        /\ d.attribute = <<c, "delay_hours">>
        /\ d.detail = "delay_hours can only be set when ring_assignment is 'ga'."

\* C13: once ValidateConfig has run, every category whose configuration
\* sets delay_hours with a ring_assignment other than 'ga' has the
\* delay_hours error, and a configuration in which every category that sets
\* delay_hours has the ring_assignment 'ga' has no such error.
C13_DelayHoursOnlyWithGa ==
    "ValidateConfig" \in validated =>
        /\ \A c \in Categories :
              ( /\ ~config[c].DelayHours.null
                /\ config[c].RingAssignment.value # "ga" ) => DelayHoursErrorFor(c)
        /\ ( \A c \in Categories :
                ~config[c].DelayHours.null => config[c].RingAssignment.value = "ga" ) =>
              \A c \in Categories : ~DelayHoursErrorFor(c)

\* the validation has rejected the ring_assignment of category c
RingAssignmentErrorFor(c) ==
    \E d \in diagnostics :
        /\ d.attribute = <<c, "ring_assignment">>
        /\ d.summary = "Invalid Attribute Value Match"

\* C14: the list system_critical's ring_assignment is validated against is
\* {'ga', 'ea'} and the common list is {'ga', 'ea', 'pause'}; once the
\* attributes are validated, a ring_assignment that is known is rejected
\* exactly when it is outside the list of its category, so that 'pause' is
\* rejected for system_critical and accepted for the other categories.
C14_SystemCriticalRing ==
    /\ ringAssignmentValidators("system_critical") = {"ga", "ea"}
    /\ ringAssignmentValidators("ring_assignment") = {"ga", "ea", "pause"}
    /\ "Schema" \in validated =>
          \A c \in Categories :
              IF config[c].known /\ config[c].RingAssignment.known
              THEN RingAssignmentErrorFor(c) <=>
                      config[c].RingAssignment.value \notin
                          (IF c = "system_critical" THEN {"ga", "ea"} ELSE {"ga", "ea", "pause"})
              ELSE ~RingAssignmentErrorFor(c)

C14_Witness ==
    /\ "Schema" \in validated
    /\ config["system_critical"].known
    /\ config["system_critical"].RingAssignment = StringValue("pause")
    /\ config["sensor_operations"].known
    /\ config["sensor_operations"].RingAssignment = StringValue("pause")
    /\ RingAssignmentErrorFor("system_critical")
    /\ ~RingAssignmentErrorFor("sensor_operations")

\* C15: the body of a response classified as retryable is closed when
\* operation returns it, which is before the wait for the retry and before
\* the next exchange: while the call waits, starts a try or has an
\* exchange in flight, none of the response bodies it got is open.
C15_BodyClosedBeforeWait ==
    /\ pc \in {"attempt", "inflight", "wait"} => openBodies = 0
    /\ pc = "wait" => (res.nil \/ res.closed)
    /\ (~res.nil /\ res.status \in RetryableStatusCodes) => res.closed

C15_Witness ==
    /\ pc = "wait"
    /\ res = [Response(429) EXCEPT !.closed = TRUE]
    /\ exchanges = 3
    /\ waitsDone = 2
    /\ openBodies = 0

\* C16: the body of the clone handed to the transport on any attempt
\* yields all the bytes of the request's body, whatever earlier attempts
\* have read and closed, with a GetBody factory and without; a request
\* without body is sent without.
C16_EveryAttemptFullBody ==
    exchanges >= 1 =>
        clonedBody.bytes = IF reqBody = "none" THEN <<>> ELSE BodyBytes

C16_Witness ==
    /\ pc = "inflight"
    /\ numTries = 3
    /\ exchanges = 3
    /\ reqBody = "buffered"
    /\ clonedBody = NewReader(BodyBytes)
    /\ reqBodyLeft = BodyBytes

\* C17: when cloneRequest fails on the k-th try, whatever k, the call is
\* over at once with the clone error and no response: the exchanges made
\* and the waits started and completed are those of the k-1 tries before.
C17_CloneFailureNeverRetried ==
    err.kind = "failed to clone request" =>
        /\ pc = "done"
        /\ exchanges = numTries - 1
        /\ Len(waits) = numTries - 1
        /\ waitsDone = numTries - 1
        /\ ret.resp = NoResponse
        /\ ret.err.kind = "failed to clone request"

C17_Witness ==
    /\ pc = "done"
    /\ numTries = 3
    /\ exchanges = 2
    /\ waitsDone = 2
    /\ reqBody = "factory"
    /\ ret = [resp |-> NoResponse, err |-> CloneError]

\* C18: a try that starts with the context cancelled, the first one
\* included, issues no exchange: the call returns the context's error.
C18_CancellationCheckedBeforeAttempt ==
    [][ ( /\ pc = "attempt"
          /\ cancelled ) =>
            /\ pc' = "done"
            /\ exchanges' = exchanges
            /\ ret'.err = ContextError ]_vars

\* C19: when the context is cancelled while an exchange is in flight, the
\* call returns, once the exchange is over, the context's error and no
\* response, whatever the exchange's outcome.
C19_InFlightResultDiscarded ==
    [][ ( /\ pc = "inflight"
          /\ cancelledAt = "inflight" ) =>
            /\ pc' = "done"
            /\ ret'.resp = NoResponse
            /\ ret'.err = ContextError ]_vars

\* C20: no step of the call changes the caller's request: its body stays
\* the object the caller gave, in the state the caller gave it.
C20_RequestUnchanged ==
    [][ /\ reqBody' = reqBody
        /\ reqBodyLeft' = reqBodyLeft ]_vars

\* the events logged in the current try
Events == {logged[i] : i \in 1 .. Len(logged)}

\* those of them that carry a wait
WaitEvents == {e \in Events : e.wait_duration # NoWait}

\* the wait started in the current try is under way or was cut by the context
WaitStarted == Len(waits) > waitsDone

\* C21 as stated: every attempt that ended in a retryable outcome has
\* logged an event with the outcome's error and a wait.
C21_Original ==
    TransientFailure =>
        \E e \in WaitEvents : e.error = err

\* C21: a retryable status is logged with its code when it is classified;
\* a retryable outcome followed by a wait is logged, before the wait
\* starts, with its error and the wait's duration; a retryable outcome
\* that ends the call is logged without a wait; a successful try logs
\* nothing; and what is logged is determined by the state of the call.
C21_EventBeforeWait ==
    /\ err.kind = "retryable HTTP status code" =>
            /\ logged # <<>>
            /\ logged[1].status_code = res.status
            /\ logged[1].wait_duration = NoWait
    /\ pc = "wait" =>
            /\ TransientFailure
            /\ WaitStarted
            /\ logged[Len(logged)].error = err
            /\ logged[Len(logged)].wait_duration = next
            /\ waits[Len(waits)] = next
    /\ WaitEvents # {} => WaitStarted
    /\ (pc = "done" /\ TransientFailure /\ ~WaitStarted) =>
            /\ logged[Len(logged)].error = ret.err
            /\ WaitEvents = {}
    /\ err = NilError => logged = <<>>
    /\ Len(logged) = (IF err.kind = "retryable HTTP status code" THEN 1 ELSE 0)
                     + (IF WaitStarted THEN 1 ELSE 0)
                     + (IF pc = "done" /\ ret.err # NilError THEN 1 ELSE 0)

C21_Witness ==
    /\ pc = "wait"
    /\ numTries = 2
    /\ err = StatusError(503)
    /\ Len(logged) = 2
    /\ logged[1].status_code = 503
    /\ logged[2].error = StatusError(503)
    /\ logged[2].wait_duration = next

\* the k-th interval of a backoff that starts at 2 seconds and grows by one
\* half at each retry up to one minute
RECURSIVE ExponentialAt(_)
ExponentialAt(k) ==
    IF k = 1
    THEN 2 * Second
    ELSE LET before == ExponentialAt(k - 1)
         IN  IF 3 * before >= 2 * 60 * Second
             THEN 60 * Second
             ELSE (3 * before) \div 2

\* these intervals, of the retries a call can make
ExponentialIntervals == [k \in 1 .. MaxTries |-> ExponentialAt(k)]

\* C22 as stated: the k-th wait of a call is the k-th interval of the
\* exponential backoff, whatever the call.
C22_Original ==
    \A k \in 1 .. Len(waits) : waits[k] = ExponentialIntervals[k]

\* C22: the interval of the k-th retry is a function of k alone, but the
\* k-th wait is not: it is drawn between half of that interval and one and
\* a half times it, so that calls that observe the same outcomes agree on
\* the intervals and on the ranges of their waits, not on the waits.
C22_WaitsRandomized ==
    /\ \A k \in 1 .. Len(intervals) : intervals[k] = ExponentialIntervals[k]
    /\ Len(waits) <= Len(intervals)
    /\ \A k \in 1 .. Len(waits) :
        /\ 2 * waits[k] >= ExponentialIntervals[k]
        /\ 2 * waits[k] <= 3 * ExponentialIntervals[k]

C22_Witness ==
    /\ scenario = <<503>>
    /\ Len(waits) = 3
    /\ waits[1] < ExponentialIntervals[1]
    /\ waits[2] > ExponentialIntervals[2]
    /\ waits[3] > ExponentialIntervals[3]
    /\ waits[3] < 2 * waits[2]

\* C23: in every state of a call at most MaxTries exchanges have been
\* issued, one per try at most, whatever the answers of the transport and
\* whenever the context is cancelled; once the MaxTries-th is issued the
\* call only waits for its answer and returns, so that there is no next one.
C23_NoEleventhExchange ==
    /\ exchanges <= MaxTries
    /\ numTries <= MaxTries
    /\ exchanges <= numTries
    /\ exchanges = MaxTries => pc \in {"inflight", "done"}

C23_Witness ==
    /\ pc = "done"
    /\ scenario = <<>>
    /\ exchanges = MaxTries
    /\ failures = MaxTries
    /\ cancelledAt = "inflight"
    /\ err = TransportError
    /\ ret.err = TransportError

\* C24 as stated: an exchange is in flight after one completed wait per
\* exchange before it, and a call that is over has completed no wait after
\* its last exchange.
C24_Original ==
    /\ pc = "inflight" => waitsDone = exchanges - 1
    /\ (pc = "done" /\ exchanges > 0) => waitsDone = exchanges - 1

\* C24: the k-th exchange is issued in the k-th try, after exactly k-1
\* waits, all of them completed; a wait is started only after a failed
\* exchange, one per exchange.  A call that ends on the outcome of an
\* exchange (a success, the last try, the elapsed-time limit, a context
\* found cancelled) has started no wait after it; a call can also end in a
\* wait that the cancellation of the context cuts, and in a try that
\* follows a completed wait and fails to clone the request, which both
\* leave a wait after the last exchange.
C24_OneWaitBetweenExchanges ==
    /\ pc = "attempt" =>
            (numTries = exchanges + 1 /\ waitsDone = exchanges /\ Len(waits) = exchanges)
    /\ pc = "inflight" =>
            (numTries = exchanges /\ waitsDone = exchanges - 1 /\ Len(waits) = exchanges - 1)
    /\ pc = "wait" =>
            (numTries = exchanges /\ waitsDone = exchanges - 1 /\ Len(waits) = exchanges)
    /\ pc = "done" =>
            \/ /\ err.kind # "failed to clone request"
               /\ ret.err = err
               /\ waitsDone = exchanges - 1
               /\ Len(waits) = exchanges - 1
            \/ /\ cancelled
               /\ TransientFailure
               /\ ret.err = ContextError
               /\ waitsDone = exchanges - 1
               /\ Len(waits) \in {exchanges - 1, exchanges}
            \/ /\ err.kind = "failed to clone request"
               /\ ret.err.kind = "failed to clone request"
               /\ waitsDone = exchanges
               /\ Len(waits) = exchanges
    /\ (pc = "done" /\ (err = NilError \/ numTries = MaxTries)) =>
            Len(waits) = waitsDone

C24_Witness ==
    /\ pc = "done"
    /\ exchanges = 2
    /\ Len(waits) = 2
    /\ waitsDone = 1
    /\ cancelledAt = "wait"
    /\ err = TransportError
    /\ ret.err = ContextError

\* C25: a call that returns a nil error returns the response of its last
\* exchange, with a status that is not retryable and the body as the
\* underlying transport gave it, not closed; the bodies the call has
\* closed are those of responses with a retryable status, and the one body
\* it leaves open is that of the response it returns.
C25_ReturnedResponseUntouched ==
    /\ (pc = "done" /\ ret.err = NilError) =>
            /\ ~ret.resp.nil
            /\ ret.resp = res
            /\ numTries = exchanges
            /\ ~ret.resp.closed
            /\ ~(ret.resp.status \in RetryableStatusCodes)
            /\ openBodies = 1
    /\ res.closed => (~res.nil /\ res.status \in RetryableStatusCodes)
    /\ openBodies > 0 =>
            /\ openBodies = 1
            /\ pc = "done"
            /\ ret = [resp |-> Response(res.status), err |-> NilError]

C25_Witness ==
    /\ pc = "done"
    /\ exchanges = 3
    /\ failures = 2
    /\ openBodies = 1
    /\ reqBody = "buffered"
    /\ ret = [resp |-> Response(200), err |-> NilError]

\* C26: a call that ends with the context cancelled, after an attempt that
\* failed in a retryable way and with tries left, returns the cause of the
\* cancellation and not the error of that attempt, whether it found the
\* context cancelled when the attempt returned or while it waited; and a
\* call returns the cause of the cancellation in no other case, so that it
\* has made fewer than MaxTries exchanges.
C26_CancellationCauseReturned ==
    /\ ( /\ pc = "done"
         /\ cancelled
         /\ TransientFailure
         /\ numTries < MaxTries ) =>
            /\ ret.err = ContextError
            /\ ret.err # err
    /\ ret.err = ContextError =>
            /\ pc = "done"
            /\ cancelled
            /\ TransientFailure
            /\ numTries < MaxTries
            /\ exchanges < MaxTries

C26_Witness ==
    /\ pc = "done"
    /\ cancelledAt = "inflight"
    /\ exchanges = 2
    /\ waitsDone = 1
    /\ Len(waits) = 1
    /\ err = StatusError(503)
    /\ ret.err = ContextError

\* the version a setting pins: none when the settings, the setting or the
\* version is absent
PinnedVersion(settings, category) ==
    LET setting == CASE category = "sensor_operations" -> settings.sensorOperations
                     [] category = "system_critical" -> settings.systemCritical
                     [] category = "vulnerability_management" -> settings.vulnerabilityManagement
                     [] category = "rapid_response" -> settings.rapidResponse
    IN  IF settings.nil \/ setting.nil \/ setting.PinnedContentVersion.null
        THEN ""
        ELSE setting.PinnedContentVersion.value

\* C27: a category the loop has not come to has no action issued; one it
\* has come to has none when the old and new versions are equal, exactly
\* one remove action when the new version is empty and the old is not, and
\* exactly one set action, with the new version, when the new version is
\* not empty and differs from the old, unless that action is the one that
\* failed, which is then the only one issued for it; no category has both.
\* Once an action has failed the function has returned its error, and once
\* it has returned it issues nothing more.
C27_PinnedVersionActions ==
    /\ [](\A c \in Categories :
            LET old == PinnedVersion(oldSettings, c)
                new == PinnedVersion(newSettings, c)
            IN  /\ Len(apiActions[c]) <= 1
                /\ c \in unvisited => apiActions[c] = <<>>
                /\ (c \notin unvisited /\ old = new) => apiActions[c] = <<>>
                /\ (c \notin unvisited /\ new = "" /\ old # "") =>
                        /\ Len(apiActions[c]) = 1
                        /\ apiActions[c][1].ActionName = "remove-pinned-content-version"
                /\ (c \notin unvisited /\ new # "" /\ new # old) =>
                        /\ Len(apiActions[c]) = 1
                        /\ apiActions[c][1].ActionName = "set-pinned-content-version"
                        /\ apiActions[c][1].Value = new)
    /\ [](manageErr.failed =>
            /\ manageErr.returned
            /\ manageErr.category \notin unvisited
            /\ apiActions[manageErr.category] # <<>>)
    /\ []((manageErr.returned /\ ~manageErr.failed) => unvisited = {})
    /\ [][manageErr.returned => UNCHANGED <<apiActions, unvisited, manageErr>>]_vars

C27_Witness ==
    /\ manageErr.failed
    /\ manageErr.category = "system_critical"
    /\ manageErr.text = "failed to set pinned content version for"
    /\ unvisited = {"rapid_response"}
    /\ PinnedVersion(oldSettings, "rapid_response") = "v2"
    /\ PinnedVersion(newSettings, "rapid_response") = "v1"
    /\ apiActions["sensor_operations"] =
           <<[ActionName |-> "remove-pinned-content-version",
              Name |-> "sensor_operations", Value |-> "sensor_operations"]>>
    /\ apiActions["vulnerability_management"] = <<>>
    /\ PinnedVersion(oldSettings, "vulnerability_management") = "v1"
    /\ PinnedVersion(newSettings, "vulnerability_management") = "v1"

\* C28: a Delete has reported no error exactly when the API call succeeded
\* or failed with the status 404; a Read has removed the resource from the
\* state, without an error, exactly when the API answered 404 or an empty
\* list of resources.
C28_MissingObjectOnly ==
    /\ exclusionResp.op = "Delete" =>
            (exclusionResp.diagnostics = {}
                <=> (exclusionResp.err.nil \/ exclusionResp.err.status = 404))
    /\ exclusionResp.op = "Read" =>
            (~exclusionInState
                <=> \/ (~exclusionResp.err.nil /\ exclusionResp.err.status = 404)
                    \/ (exclusionResp.err.nil /\ exclusionResp.resources = 0))

\* C29: a Delete of the default policy resource has made no API call and
\* reported no error, and has left the policy at the API, its settings and
\* its enabled state as they were; after any Create, Update and Delete the
\* policy exists at the API.
C29_DeleteLeavesDefaultPolicy ==
    /\ [](defaultPolicy.exists)
    /\ [](policyResp.op = "Delete" =>
            /\ policyResp.apiCalls = <<>>
            /\ policyResp.diagnostics = {}
            /\ ~policyState.present)
    /\ [][policyResp'.op = "Delete" => defaultPolicy' = defaultPolicy]_vars

C29_Witness ==
    /\ policyResp.op = "Delete"
    /\ policyResp.apiCalls = <<>>
    /\ ~policyState.present
    /\ defaultPolicy = [exists |-> TRUE, ring |-> "pause", enabled |-> FALSE]

====
